---- MODULE Spec2Model ----
(***************************************************************************)
(* Metered Perplexity proxy: the four tools of server/tools/perplexity.ts  *)
(* (ASK_PERPLEXITY, PERPLEXITY_CHAT_COMPLETIONS, PERPLEXITY_DEEP_RESEARCH, *)
(* GET_PERPLEXITY_DEEP_RESEARCH_RESULT) with the contract ledger           *)
(* (CONTRACT_AUTHORIZE / CONTRACT_SETTLE), the PERPLEXITY_JOBS key/value   *)
(* store and the upstream API as the environment.  Every await of a tool   *)
(* is one action; invocations interleave at their awaits.                  *)
(***************************************************************************)
EXTENDS Integers, Sequences, FiniteSets, Bags, TLC

\* ------------------------------------------------------------------ bounds

\* Invocations started in one behaviour.
MaxInv == 3

\* Transactions the ledger authorizes in one behaviour.
MaxTx == 1

\* ------------------------------------------------------- program constants

DefaultMaxTokens == 16000
CitationFloor == 50000
ReasoningFloor == 100000
QueriesLow == 10
QueriesHigh == 60
QueriesDefault == 30
CharsPerToken == 4

DeepResearchModel == "sonar-deep-research"

\* ----------------------------------------------------------------- strings

\* A string is the sequence of its characters; the tools read only .length.
abcd == <<"a", "b", "c", "d">>
abcde == <<"a", "b", "c", "d", "e">>
hi == <<"h", "i">>

\* An optional value: <<>> when undefined/null, <<v>> when present.
None == <<>>
Some(v) == <<v>>
IsSome(o) == o # <<>>

\* x ?? d
OrElse(o, d) == IF o = <<>> THEN d ELSE o[1]

Min(a, b) == IF a <= b THEN a ELSE b
Max(a, b) == IF a >= b THEN a ELSE b

\* Math.ceil(n / CharsPerToken) for a non-negative integer n
CeilDiv4(n) == (n + (CharsPerToken - 1)) \div CharsPerToken

\* ------------------------------------------------------------- data model

Models == {"sonar", "sonar-pro"}

Resources ==
  {"input-token", "output-token", "citation-token", "reasoning-token",
   "search-query"}

\* { clauseId: `${prefix}:${resource}`, amount }
Clause(prefix, resource, amount) ==
  [clauseId |-> <<prefix, resource>>, amount |-> amount]

ClauseIds(clauses) == {clauses[k].clauseId : k \in 1..Len(clauses)}

\* clauses.find((c) => c.clauseId === id)?.amount ?? 0
FindAmount(clauses, id) ==
  IF \E k \in 1..Len(clauses) : clauses[k].clauseId = id
  THEN LET k == CHOOSE k \in 1..Len(clauses) :
                  /\ clauses[k].clauseId = id
                  /\ \A j \in 1..(k - 1) : clauses[j].clauseId # id
       IN clauses[k].amount
  ELSE 0

\* A chat message content: a string, or a list of chunks.
StringContent(s) == [kind |-> "string", text |-> s, chunks |-> <<>>]
ChunkContent(cs) == [kind |-> "chunks", text |-> <<>>, chunks |-> cs]
TextChunk(s) == [type |-> "text", text |-> Some(s)]
ImageChunk == [type |-> "image_url", text |-> None]
Message(role, content) == [role |-> role, content |-> content]

HiImage == << Message("user", ChunkContent(<< TextChunk(hi), ImageChunk >>)) >>

TwoMessages ==
  << Message("system", StringContent(abcde)),
     Message("user", ChunkContent(<< TextChunk(hi), TextChunk(abcd) >>)) >>

\* max_tokens as the caller gives it: absent, or a positive integer.
MaxTokensInputs == {None, Some(1)}

\* BasePerplexityParamsSchema.max_tokens: optional().default(16000)
ParseMaxTokens(o) == OrElse(o, DefaultMaxTokens)

ReasoningEfforts == {None, Some("low"), Some("high")}

\* The usage record of an upstream chat completion.
Usage(p, c, cit, rea, q) ==
  [prompt_tokens |-> p, completion_tokens |-> c, citation_tokens |-> cit,
   reasoning_tokens |-> rea, num_search_queries |-> q]

\* Usage records the upstream may report for a chat completion.
ChatUsages ==
  { Usage(1, 16001, None, None, None), Usage(3, 1, None, None, None) }

HttpErrorStatuses == {429, 500}

\* Usage records the upstream may report for a finished deep research job.
DeepUsages ==
  { Usage(1, 1, Some(5), Some(7), Some(5)),
    Usage(5, 16001, None, None, None),
    Usage(5, 2, Some(50001), Some(100001), Some(61)) }

\* The model name the upstream puts in a job descriptor: the model of the
\* request, which PERPLEXITY_DEEP_RESEARCH fixes.
UpstreamModels == {DeepResearchModel}

\* AsyncJob: { id, model, status, response?, error_message? }
AsyncJob(id, model, status, response) ==
  [id |-> id, model |-> model, status |-> status, response |-> response]

\* JSON.stringify / JSON.parse of a JobRecord: the text of the record.
JSONStringify(value) == <<"json", value>>
JSONParse(text) == text[2]

\* ---------------------------------------------------------- usage estimator

\* Variant: the chunk type is not looked at.
RECURSIVE ChunkChars_AnyType(_)
ChunkChars_AnyType(chunks) ==
  IF chunks = <<>> THEN 0
  ELSE LET chunk == Head(chunks)
       IN (IF IsSome(chunk.text) THEN Len(chunk.text[1]) ELSE 0)
          + ChunkChars_AnyType(Tail(chunks))

RECURSIVE ChunkChars(_)
ChunkChars(chunks) ==
  IF chunks = <<>> THEN 0
  ELSE LET chunk == Head(chunks)
       IN (IF chunk.type = "text" /\ IsSome(chunk.text) /\ Len(chunk.text[1]) > 0
           THEN Len(chunk.text[1]) ELSE 0)
          + ChunkChars(Tail(chunks))

RECURSIVE MessageChars(_)
MessageChars(messages) ==
  IF messages = <<>> THEN 0
  ELSE LET m == Head(messages)
       IN (IF m.content.kind = "string" THEN Len(m.content.text)
           ELSE ChunkChars(m.content.chunks))
          + MessageChars(Tail(messages))

estimateInputTokensFromMessages(messages) == CeilDiv4(MessageChars(messages))

\* Variant: only the documented efforts have a budget.
estimateSearchQueries_KnownOnly(effort) ==
  IF effort = Some("low") THEN QueriesLow
  ELSE IF effort = Some("high") THEN QueriesHigh
  ELSE IF effort \in {None, Some("medium")} THEN QueriesDefault
  ELSE 0

estimateSearchQueries(effort) ==
  IF effort = Some("low") THEN QueriesLow
  ELSE IF effort = Some("high") THEN QueriesHigh
  ELSE QueriesDefault

\* Variant: the quotient is rounded down.
estimateInputTokens_Floor(query) == Len(query) \div CharsPerToken

\* Math.ceil(context.query.length / 4)
estimateInputTokens(query) == CeilDiv4(Len(query))

\* ------------------------------------------------------------------- state

VARIABLES
  apiKey,       \* env.PERPLEXITY_API_KEY is set
  jobsBound,    \* env.PERPLEXITY_JOBS is bound
  authorized,   \* ledger: the clauses of each CONTRACT_AUTHORIZE, by transaction id
  settles,      \* ledger: the CONTRACT_SETTLE calls received, by transaction id
  kv,           \* PERPLEXITY_JOBS: transaction id -> stored JobRecord, or None
  jobs,         \* upstream: the async jobs, by job id
  inv,          \* the bag of tool invocations: position, context, locals, result
  dec,          \* one run of the streaming decoder: input, position, accumulator
  est           \* one call of the usage estimator: function, argument, value

vars == <<apiKey, jobsBound, authorized, settles, kv, jobs, inv, dec, est>>

TxIds == 1..MaxTx

NoContext ==
  [query |-> <<>>, model |-> "", max_tokens |-> 0, messages |-> <<>>,
   reasoning_effort |-> None, transactionId |-> 0]

NoResult ==
  [kind |-> "none", error |-> "", httpStatus |-> 0, status |-> "",
   response |-> None, settled |-> FALSE, transactionId |-> 0,
   request |-> None]

Idle ==
  [op |-> "", pc |-> "idle", context |-> NoContext, transactionId |-> 0,
   authorizeClauses |-> <<>>, stream |-> None, res |-> None, data |-> None,
   json |-> None,
   asyncResp |-> None, parsedJob |-> None, settleClauses |-> <<>>,
   calls |-> <<>>, result |-> NoResult]

\* No stream is being decoded, no estimate is being computed.
NoDecode == [pc |-> "none"]
NoEstimate == [fn |-> "none"]

Init ==
  /\ dec = NoDecode
  /\ est = NoEstimate
  /\ apiKey \in BOOLEAN
  /\ jobsBound \in BOOLEAN
  /\ authorized = <<>>
  /\ settles = [t \in TxIds |-> <<>>]
  /\ kv = [t \in TxIds |-> None]
  /\ jobs = <<>>
  /\ inv = EmptyBag

Invocations == BagToSet(inv)

\* The runtime starts an invocation for an inbound request.
Start(r) ==
  /\ BagCardinality(inv) < MaxInv
  /\ inv' = inv (+) SetToBag({r})

\* The invocation at r moves to r2.
Step(r, r2) == inv' = (inv (-) SetToBag({r})) (+) SetToBag({r2})

\* The invocation throws: the error reaches the caller, the locals are gone.
\* (res and data, the status and the body of the last HTTP response, are kept
\* beside the error.)
Throw(r, calls, error, httpStatus) ==
  [Idle EXCEPT !.op = r.op, !.pc = "failed",
               !.transactionId = r.transactionId, !.calls = calls,
               !.res = r.res, !.data = r.data,
               !.result = [NoResult EXCEPT !.kind = "error", !.error = error,
                                           !.httpStatus = httpStatus]]

\* throw new Error(`Perplexity API error: ${res.status} ...`)
ThrowHttpError(r, calls, status) ==
  Throw([r EXCEPT !.res = Some(status)], calls, "UpstreamHttpError", status)

HttpOk == 200

\* ------------------------------------------------------------ ledger gateway

\* env.PERPLEXITY_CONTRACT.CONTRACT_AUTHORIZE({ clauses }): the transaction id
\* the ledger returns.
NextTransactionId == Len(authorized) + 1

\* Variant: the credential is checked before the ledger is called.
Authorize_CredentialFirst(op, context, clauses) ==
  LET r == [Idle EXCEPT !.op = op, !.context = context,
                        !.authorizeClauses = clauses,
                        !.calls = <<"CONTRACT_AUTHORIZE">>]
  IN IF ~apiKey
     THEN /\ Start(Throw(r, <<>>, "MissingCredentialError", 0))
          /\ UNCHANGED authorized
     ELSE \/ /\ NextTransactionId \in DOMAIN settles
             /\ authorized' = Append(authorized, clauses)
             /\ Start([r EXCEPT !.pc = "authorized",
                                !.transactionId = NextTransactionId])
          \/ /\ Start(Throw(r, r.calls, "LedgerError", 0))
             /\ UNCHANGED authorized

\* The tool's first await: CONTRACT_AUTHORIZE with the clauses of the request.
Authorize(op, context, clauses) ==
  LET r == [Idle EXCEPT !.op = op, !.context = context,
                        !.authorizeClauses = clauses,
                        !.calls = <<"CONTRACT_AUTHORIZE">>]
  IN \/ /\ NextTransactionId \in DOMAIN settles
        /\ authorized' = Append(authorized, clauses)
        /\ Start([r EXCEPT !.pc = "authorized",
                           !.transactionId = NextTransactionId])
     \/ /\ Start(Throw(r, r.calls, "LedgerError", 0))
        /\ UNCHANGED authorized

\* Variant: a rejected CONTRACT_SETTLE is attempted a second time before the
\* error is thrown.
Settle_RetryOnce(r, clauses, result) ==
  LET calls == Append(r.calls, "CONTRACT_SETTLE")
  IN \/ /\ settles' = [settles EXCEPT ![r.transactionId] = Append(@, clauses)]
        /\ Step(r, [r EXCEPT !.pc = "done", !.calls = calls,
                             !.settleClauses = clauses, !.result = result])
     \/ /\ Step(r, Throw(r, Append(calls, "CONTRACT_SETTLE"), "LedgerError", 0))
        /\ UNCHANGED settles

\* CONTRACT_SETTLE({ transactionId, vendorId, clauses }), then the return value.
\* The ledger records the call it accepts; a call it rejects throws.
Settle(r, clauses, result) ==
  LET calls == Append(r.calls, "CONTRACT_SETTLE")
  IN \/ /\ Len(settles[r.transactionId]) < MaxInv
        /\ settles' = [settles EXCEPT ![r.transactionId] = Append(@, clauses)]
        /\ Step(r, [r EXCEPT !.pc = "done", !.calls = calls,
                             !.settleClauses = clauses, !.result = result])
     \/ /\ Step(r, Throw(r, calls, "LedgerError", 0))
        /\ UNCHANGED settles

\* ------------------------------------------------------ chat-completion body

\* The body of a 2xx chat-completion response, by the fields the response
\* schema requires: absent fields are None.
Payload(id, object, usage, choices) ==
  [id |-> id, object |-> object, usage |-> usage, choices |-> choices]

\* A body of the expected shape carrying the given usage record.
CompletePayload(usage) ==
  Payload(Some("id"), Some("chat.completion"), Some(usage), Some("choices"))

\* A body cut short: it has choices but no usage record.
ChoicesOnlyPayload == Payload(Some("id"), Some("chat.completion"), None, Some("choices"))

\* A body of another shape, without choices.
ForeignPayload == Payload(None, None, None, None)

\* ChatCompletionsResponseJsonSchema accepts the body.
SchemaAccepts(data) ==
  /\ IsSome(data.id)
  /\ data.object = Some("chat.completion")
  /\ IsSome(data.usage)
  /\ IsSome(data.choices)

\* ----------------------------------------------------------- upstream client

\* Variant: the key is not looked at before the request is built.
ensureApiKey_Unchecked == TRUE

\* ensureApiKey(env): throws when the key is missing.
ensureApiKey == apiKey

\* Bodies the upstream may send with a 2xx status.
ChatPayloads ==
  {CompletePayload(usage) : usage \in ChatUsages}
    \cup {ChoicesOnlyPayload, ForeignPayload}

\* ChatCompletionsResponseJsonSchema.parse(data): the parsed document; it
\* throws when the schema rejects the body.
SchemaParse(r, calls, stream, data) ==
  LET got == [r EXCEPT !.res = Some(HttpOk), !.data = Some(data)]
  IN IF SchemaAccepts(data)
     THEN [got EXCEPT !.pc = "called", !.calls = calls,
                      !.stream = Some(stream),
                      !.json = Some([usage |-> data.usage[1]])]
     ELSE Throw(got, calls, "UpstreamSchemaError", 0)

\* callPerplexity(env, body): ensureApiKey, POST, res.ok, res.json(), parse.
callPerplexity(r, stream) ==
  IF ~ensureApiKey
  THEN Step(r, Throw(r, r.calls, "MissingCredentialError", 0))
  ELSE LET calls == Append(r.calls, "fetch:chat")
       IN \/ \E status \in HttpErrorStatuses :
               Step(r, ThrowHttpError(r, calls, status))
          \/ \E data \in ChatPayloads :
               Step(r, SchemaParse(r, calls, stream, data))

\* ------------------------------------------------------------ ASK_PERPLEXITY

AskContext(query, model, max_tokens) ==
  [NoContext EXCEPT !.query = query, !.model = model,
                    !.max_tokens = ParseMaxTokens(max_tokens)]

AskContexts ==
  { AskContext(abcd, "sonar", None), AskContext(abcde, "sonar-pro", Some(1)) }

AskAuthorizeClauses(context) ==
  LET prefix == context.model
      inputTokens == estimateInputTokens(context.query)
  IN << Clause(prefix, "input-token", inputTokens),
        Clause(prefix, "output-token", context.max_tokens) >>

\* Variant: the usage the upstream reports is settled as it is.
AskSettleClauses_ActualUsage(context, json) ==
  << Clause(context.model, "input-token", json.usage.prompt_tokens),
     Clause(context.model, "output-token", json.usage.completion_tokens) >>

AskSettleClauses(context, json) ==
  LET prefix == context.model
      inputTokens == estimateInputTokens(context.query)
  IN << Clause(prefix, "input-token",
               Min(inputTokens, json.usage.prompt_tokens)),
        Clause(prefix, "output-token",
               Min(json.usage.completion_tokens, context.max_tokens)) >>

AskAuthorize ==
  /\ \E context \in AskContexts :
       Authorize("ASK_PERPLEXITY", context, AskAuthorizeClauses(context))
  /\ UNCHANGED <<dec, est, apiKey, jobsBound, settles, kv, jobs>>

\* body.stream = true; callPerplexity(env, body, toolStartTime)
AskCall(r) ==
  /\ r.op = "ASK_PERPLEXITY"
  /\ r.pc = "authorized"
  /\ callPerplexity(r, TRUE)
  /\ UNCHANGED <<dec, est, apiKey, jobsBound, authorized, settles, kv, jobs>>

\* Variant: the estimate is settled right after the authorization, before the
\* upstream call.
AskSettle_BeforeCall(r) ==
  /\ r.op = "ASK_PERPLEXITY"
  /\ r.pc = "authorized"
  /\ Settle(r, r.authorizeClauses, [NoResult EXCEPT !.kind = "ok"])
  /\ UNCHANGED <<dec, est, apiKey, jobsBound, authorized, kv, jobs>>

AskSettle(r) ==
  /\ r.op = "ASK_PERPLEXITY"
  /\ r.pc = "called"
  /\ Settle(r, AskSettleClauses(r.context, r.json[1]),
            [NoResult EXCEPT !.kind = "ok", !.response = r.json])
  /\ UNCHANGED <<dec, est, apiKey, jobsBound, authorized, kv, jobs>>

\* ----------------------------------------------- PERPLEXITY_CHAT_COMPLETIONS

ChatContext(messages, model, max_tokens) ==
  [NoContext EXCEPT !.messages = messages, !.model = model,
                    !.max_tokens = ParseMaxTokens(max_tokens)]

ChatContexts ==
  { ChatContext(HiImage, "sonar", Some(1)),
    ChatContext(TwoMessages, "sonar-pro", None) }

ChatAuthorizeClauses(context) ==
  LET prefix == context.model
      inputTokens == estimateInputTokensFromMessages(context.messages)
  IN << Clause(prefix, "input-token", inputTokens),
        Clause(prefix, "output-token", context.max_tokens) >>

\* Variant: the settle clauses keep the fixed "sonar" prefix.
ChatSettleClauses_SonarPrefix(context, json) ==
  LET inputTokens == estimateInputTokensFromMessages(context.messages)
  IN << Clause("sonar", "input-token",
               Min(inputTokens, json.usage.prompt_tokens)),
        Clause("sonar", "output-token",
               Min(json.usage.completion_tokens, context.max_tokens)) >>

ChatSettleClauses(context, json) ==
  LET prefix == context.model
      inputTokens == estimateInputTokensFromMessages(context.messages)
  IN << Clause(prefix, "input-token",
               Min(inputTokens, json.usage.prompt_tokens)),
        Clause(prefix, "output-token",
               Min(json.usage.completion_tokens, context.max_tokens)) >>

ChatAuthorize ==
  /\ \E context \in ChatContexts :
       Authorize("PERPLEXITY_CHAT_COMPLETIONS", context,
                 ChatAuthorizeClauses(context))
  /\ UNCHANGED <<dec, est, apiKey, jobsBound, settles, kv, jobs>>

\* Variant: an upstream HTTP error is answered by a zero settlement before the
\* error is rethrown.
ChatCall_SettleOnError(r) ==
  /\ r.op = "PERPLEXITY_CHAT_COMPLETIONS"
  /\ r.pc = "authorized"
  /\ \/ /\ callPerplexity(r, FALSE)
        /\ UNCHANGED settles
     \/ /\ ensureApiKey
        /\ \E status \in HttpErrorStatuses :
             Step(r, ThrowHttpError(r, <<"CONTRACT_AUTHORIZE", "fetch:chat",
                                         "CONTRACT_SETTLE">>, status))
        /\ settles' = [settles EXCEPT ![r.transactionId] =
                         Append(@, << Clause(r.context.model, "input-token", 0),
                                      Clause(r.context.model, "output-token", 0) >>)]
  /\ UNCHANGED <<dec, est, apiKey, jobsBound, authorized, kv, jobs>>

\* body.stream = false; callPerplexity(env, body)
ChatCall(r) ==
  /\ r.op = "PERPLEXITY_CHAT_COMPLETIONS"
  /\ r.pc = "authorized"
  /\ callPerplexity(r, FALSE)
  /\ UNCHANGED <<dec, est, apiKey, jobsBound, authorized, settles, kv, jobs>>

ChatSettle(r) ==
  /\ r.op = "PERPLEXITY_CHAT_COMPLETIONS"
  /\ r.pc = "called"
  /\ Settle(r, ChatSettleClauses(r.context, r.json[1]),
            [NoResult EXCEPT !.kind = "ok", !.response = r.json])
  /\ UNCHANGED <<dec, est, apiKey, jobsBound, authorized, kv, jobs>>

\* -------------------------------------------------- PERPLEXITY_DEEP_RESEARCH

DeepContext(messages, max_tokens, reasoning_effort) ==
  [NoContext EXCEPT !.messages = messages, !.model = DeepResearchModel,
                    !.max_tokens = ParseMaxTokens(max_tokens),
                    !.reasoning_effort = reasoning_effort]

DeepContexts ==
  { DeepContext(HiImage, None, None),
    DeepContext(TwoMessages, Some(100001), Some("low")) }

\* Variant: the citation and reasoning clauses are authorized at the cap,
\* without their floors.
DeepAuthorizeClauses_NoFloors(context) ==
  LET prefix == DeepResearchModel
      maxTokens == context.max_tokens
  IN << Clause(prefix, "input-token",
               estimateInputTokensFromMessages(context.messages)),
        Clause(prefix, "output-token", maxTokens),
        Clause(prefix, "citation-token", maxTokens),
        Clause(prefix, "reasoning-token", maxTokens),
        Clause(prefix, "search-query",
               estimateSearchQueries(context.reasoning_effort)) >>

DeepAuthorizeClauses(context) ==
  LET prefix == DeepResearchModel
      inputTokens == estimateInputTokensFromMessages(context.messages)
      maxTokens == context.max_tokens
      searchQueries == estimateSearchQueries(context.reasoning_effort)
  IN << Clause(prefix, "input-token", inputTokens),
        Clause(prefix, "output-token", maxTokens),
        Clause(prefix, "citation-token", Max(maxTokens, CitationFloor)),
        Clause(prefix, "reasoning-token", Max(maxTokens, ReasoningFloor)),
        Clause(prefix, "search-query", searchQueries) >>

DeepAuthorize ==
  /\ \E context \in DeepContexts :
       Authorize("PERPLEXITY_DEEP_RESEARCH", context,
                 DeepAuthorizeClauses(context))
  /\ UNCHANGED <<dec, est, apiKey, jobsBound, settles, kv, jobs>>

\* createPerplexityAsyncJob(env, requestBody): ensureApiKey, POST
\* { request: requestBody }, the created job descriptor.
createPerplexityAsyncJob(r) ==
  IF ~ensureApiKey
  THEN /\ Step(r, Throw(r, r.calls, "MissingCredentialError", 0))
       /\ UNCHANGED jobs
  ELSE LET calls == Append(r.calls, "fetch:async-create")
       IN \/ /\ \E status \in HttpErrorStatuses :
                  Step(r, ThrowHttpError(r, calls, status))
             /\ UNCHANGED jobs
          \/ \E model \in UpstreamModels :
               LET job == AsyncJob(Len(jobs) + 1, model, "CREATED", None)
               IN /\ jobs' = Append(jobs, job)
                  /\ Step(r, [r EXCEPT !.pc = "created", !.calls = calls,
                                       !.stream = Some(FALSE),
                                       !.res = Some(HttpOk),
                                       !.asyncResp = Some(job)])

\* Variant: the record is put under the transaction id before the job is
\* created upstream.
DeepCreate_PutFirst(r) ==
  /\ r.op = "PERPLEXITY_DEEP_RESEARCH"
  /\ r.pc = "authorized"
  /\ createPerplexityAsyncJob(r)
  /\ kv' = [kv EXCEPT ![r.transactionId] =
              Some(JSONStringify(
                [authorizeClauses |-> r.authorizeClauses,
                 asyncResp |-> AsyncJob(Len(jobs) + 1, DeepResearchModel,
                                        "CREATED", None)]))]
  /\ UNCHANGED <<dec, est, apiKey, jobsBound, authorized, settles>>

DeepCreate(r) ==
  /\ r.op = "PERPLEXITY_DEEP_RESEARCH"
  /\ r.pc = "authorized"
  /\ createPerplexityAsyncJob(r)
  /\ UNCHANGED <<dec, est, apiKey, jobsBound, authorized, settles, kv>>

DeepResult(r) ==
  [NoResult EXCEPT !.kind = "ok", !.request = r.asyncResp,
                   !.transactionId = r.transactionId]

\* env.PERPLEXITY_JOBS?.put(transactionId, JSON.stringify({ authorizeClauses,
\* asyncResp })), then the return value.
DeepPut(r) ==
  LET record == [authorizeClauses |-> r.authorizeClauses,
                 asyncResp |-> r.asyncResp[1]]
  IN /\ r.op = "PERPLEXITY_DEEP_RESEARCH"
     /\ r.pc = "created"
     /\ IF ~jobsBound
        THEN /\ Step(r, [r EXCEPT !.pc = "done", !.result = DeepResult(r)])
             /\ UNCHANGED kv
        ELSE LET calls == Append(r.calls, "JOBS.put")
             IN \/ /\ kv' = [kv EXCEPT ![r.transactionId] =
                               Some(JSONStringify(record))]
                   /\ Step(r, [r EXCEPT !.pc = "done", !.calls = calls,
                                        !.result = DeepResult(r)])
                \/ /\ Step(r, Throw(r, calls, "StoreError", 0))
                   /\ UNCHANGED kv
     /\ UNCHANGED <<dec, est, apiKey, jobsBound, authorized, settles, jobs>>

\* ------------------------------------------------------------ upstream jobs

DeepResponses == {None} \cup {Some([usage |-> u]) : u \in DeepUsages}

\* The descriptor of a completed job: the model field is the upstream's to
\* fill, with the name that was requested or with the name the upstream gives
\* the model that ran.
ReportedModel == "sonar-deep-research-v2"

DeepOutcomes ==
  {[model |-> DeepResearchModel, response |-> response] :
     response \in DeepResponses}
  \cup {[model |-> ReportedModel,
         response |-> Some([usage |-> Usage(1, 1, Some(5), Some(7), Some(5))])]}

\* The upstream works on a job: CREATED -> IN_PROGRESS -> COMPLETED | FAILED.
JobAdvance(j) ==
  /\ \/ /\ jobs[j].status = "CREATED"
        /\ jobs' = [jobs EXCEPT ![j].status = "IN_PROGRESS"]
     \/ /\ jobs[j].status = "IN_PROGRESS"
        /\ jobs' = [jobs EXCEPT ![j].status = "FAILED"]
     \/ /\ jobs[j].status = "IN_PROGRESS"
        /\ \E outcome \in DeepOutcomes :
             jobs' = [jobs EXCEPT ![j].status = "COMPLETED",
                                  ![j].model = outcome.model,
                                  ![j].response = outcome.response]
  /\ UNCHANGED <<dec, est, apiKey, jobsBound, authorized, settles, kv, inv>>

\* --------------------------------------- GET_PERPLEXITY_DEEP_RESEARCH_RESULT

PollContexts == { [NoContext EXCEPT !.transactionId = t] : t \in DOMAIN kv }

\* Variant: a missing record is taken for a failed job, to be settled at zero.
Loaded_MissingAsFailed(r, storedJob) ==
  IF storedJob = None
  THEN LET job == AsyncJob(0, DeepResearchModel, "FAILED", None)
       IN [r EXCEPT !.pc = "terminal", !.asyncResp = Some(job),
                    !.parsedJob = Some([authorizeClauses |-> <<>>,
                                        asyncResp |-> job])]
  ELSE [r EXCEPT !.pc = "loaded", !.parsedJob = Some(JSONParse(storedJob[1]))]

\* parsedJob = storedJob ? JSON.parse(storedJob) : null; parsedJob.asyncResp.id
\* throws on null, before getPerplexityAsyncJob is called.
Loaded(r, storedJob) ==
  IF storedJob = None
  THEN Throw(r, r.calls, "UnknownTransactionError", 0)
  ELSE [r EXCEPT !.pc = "loaded", !.parsedJob = Some(JSONParse(storedJob[1]))]

\* Variant: the poll reads the record that was stored last, whatever the
\* transaction id it was given.
PollGet_LatestRecord ==
  /\ \E context \in PollContexts :
       LET r == [Idle EXCEPT !.op = "GET_PERPLEXITY_DEEP_RESEARCH_RESULT",
                             !.context = context,
                             !.transactionId = context.transactionId,
                             !.calls = IF jobsBound THEN <<"JOBS.get">> ELSE <<>>]
           stored == {t \in DOMAIN kv : kv[t] # None}
           latest == CHOOSE t \in stored : \A u \in stored : u <= t
           storedJob == IF jobsBound /\ stored # {} THEN kv[latest] ELSE None
       IN \/ /\ jobsBound
             /\ Start(Throw(r, r.calls, "StoreError", 0))
          \/ Start(Loaded(r, storedJob))
  /\ UNCHANGED <<dec, est, apiKey, jobsBound, authorized, settles, kv, jobs>>

\* env.PERPLEXITY_JOBS?.get(transactionId), then the lookup of the record.
PollGet ==
  /\ \E context \in PollContexts :
       LET r == [Idle EXCEPT !.op = "GET_PERPLEXITY_DEEP_RESEARCH_RESULT",
                             !.context = context,
                             !.transactionId = context.transactionId,
                             !.calls = IF jobsBound THEN <<"JOBS.get">> ELSE <<>>]
           storedJob == IF jobsBound THEN kv[context.transactionId] ELSE None
       IN \/ /\ jobsBound
             /\ Start(Throw(r, r.calls, "StoreError", 0))
          \/ Start(Loaded(r, storedJob))
  /\ UNCHANGED <<dec, est, apiKey, jobsBound, authorized, settles, kv, jobs>>

\* Variant: IN_PROGRESS is taken for a terminal status.
IsPending_OnlyCreated(status) == status = "CREATED"

\* asyncResp.status === "CREATED" || asyncResp.status === "IN_PROGRESS"
IsPending(status) == status = "CREATED" \/ status = "IN_PROGRESS"

PollPendingResult(asyncResp) ==
  [NoResult EXCEPT !.kind = "ok", !.status = asyncResp.status,
                   !.response = None, !.settled = FALSE]

\* getPerplexityAsyncJob(env, id): ensureApiKey, GET, the current descriptor;
\* then the CREATED / IN_PROGRESS return.
PollFetch(r) ==
  /\ r.op = "GET_PERPLEXITY_DEEP_RESEARCH_RESULT"
  /\ r.pc = "loaded"
  /\ IF ~ensureApiKey
     THEN Step(r, Throw(r, r.calls, "MissingCredentialError", 0))
     ELSE LET calls == Append(r.calls, "fetch:async-get")
              asyncResp == jobs[r.parsedJob[1].asyncResp.id]
          IN \/ \E status \in HttpErrorStatuses :
                  Step(r, ThrowHttpError(r, calls, status))
             \/ /\ IsPending(asyncResp.status)
                /\ Step(r, [r EXCEPT !.pc = "done", !.calls = calls,
                                     !.res = Some(HttpOk),
                                     !.asyncResp = Some(asyncResp),
                                     !.result = PollPendingResult(asyncResp)])
             \/ /\ ~IsPending(asyncResp.status)
                /\ Step(r, [r EXCEPT !.pc = "terminal", !.calls = calls,
                                     !.res = Some(HttpOk),
                                     !.asyncResp = Some(asyncResp)])
  /\ UNCHANGED <<dec, est, apiKey, jobsBound, authorized, settles, kv, jobs>>

\* Variant: the search-query clause is left out of the refund.
ZeroClauses_NoSearchQuery(prefix) ==
  << Clause(prefix, "input-token", 0),
     Clause(prefix, "output-token", 0),
     Clause(prefix, "citation-token", 0),
     Clause(prefix, "reasoning-token", 0) >>

ZeroClauses(prefix) ==
  << Clause(prefix, "input-token", 0),
     Clause(prefix, "output-token", 0),
     Clause(prefix, "citation-token", 0),
     Clause(prefix, "reasoning-token", 0),
     Clause(prefix, "search-query", 0) >>

\* Variant: the reported usage is settled without looking at the record.
ReconcileClauses_NoCaps(prefix, authorizeClauses, usage) ==
  << Clause(prefix, "input-token", usage.prompt_tokens),
     Clause(prefix, "output-token", usage.completion_tokens),
     Clause(prefix, "citation-token", OrElse(usage.citation_tokens, 0)),
     Clause(prefix, "reasoning-token", OrElse(usage.reasoning_tokens, 0)),
     Clause(prefix, "search-query", OrElse(usage.num_search_queries, 0)) >>

ReconcileClauses(prefix, authorizeClauses, usage) ==
  LET inputAmount == FindAmount(authorizeClauses, <<prefix, "input-token">>)
      outputAmount == usage.completion_tokens
      citation == OrElse(usage.citation_tokens, 0)
      reasoning == OrElse(usage.reasoning_tokens, 0)
      queries == OrElse(usage.num_search_queries, 0)
  IN << Clause(prefix, "input-token", Min(inputAmount, usage.prompt_tokens)),
        Clause(prefix, "output-token",
               Min(outputAmount, usage.completion_tokens)),
        Clause(prefix, "citation-token",
               Min(citation,
                   FindAmount(authorizeClauses, <<prefix, "citation-token">>))),
        Clause(prefix, "reasoning-token",
               Min(reasoning,
                   FindAmount(authorizeClauses, <<prefix, "reasoning-token">>))),
        Clause(prefix, "search-query",
               Min(queries,
                   FindAmount(authorizeClauses, <<prefix, "search-query">>))) >>

\* The clauses the poll settles, by branch: FAILED, COMPLETED without a
\* response, COMPLETED with one.
PollSettleClauses(parsedJob, asyncResp) ==
  LET prefix == asyncResp.model
  IN IF asyncResp.status = "FAILED" THEN ZeroClauses(prefix)
     ELSE IF asyncResp.response = None THEN ZeroClauses(prefix)
     ELSE ReconcileClauses(prefix, parsedJob.authorizeClauses,
                           asyncResp.response[1].usage)

PollTerminalResult(asyncResp) ==
  [NoResult EXCEPT !.kind = "ok", !.status = asyncResp.status,
                   !.response = IF asyncResp.status = "FAILED" THEN None
                                ELSE asyncResp.response,
                   !.settled = TRUE]

\* Variant: a transaction that has a settlement is not settled again.
\* Variant: the record is deleted from the job store once the transaction is
\* settled.
PollSettle_DeleteRecord(r) ==
  /\ r.op = "GET_PERPLEXITY_DEEP_RESEARCH_RESULT"
  /\ r.pc = "terminal"
  /\ Settle(r, PollSettleClauses(r.parsedJob[1], r.asyncResp[1]),
            PollTerminalResult(r.asyncResp[1]))
  /\ kv' = [kv EXCEPT ![r.transactionId] = None]
  /\ UNCHANGED <<dec, est, apiKey, jobsBound, authorized, jobs>>

PollSettle_OncePerTransaction(r) ==
  /\ r.op = "GET_PERPLEXITY_DEEP_RESEARCH_RESULT"
  /\ r.pc = "terminal"
  /\ IF settles[r.transactionId] # <<>>
     THEN /\ Step(r, [r EXCEPT !.pc = "done",
                               !.result = PollTerminalResult(r.asyncResp[1])])
          /\ UNCHANGED settles
     ELSE Settle(r, PollSettleClauses(r.parsedJob[1], r.asyncResp[1]),
                 PollTerminalResult(r.asyncResp[1]))
  /\ UNCHANGED <<dec, est, apiKey, jobsBound, authorized, kv, jobs>>

PollSettle(r) ==
  /\ r.op = "GET_PERPLEXITY_DEEP_RESEARCH_RESULT"
  /\ r.pc = "terminal"
  /\ Settle(r, PollSettleClauses(r.parsedJob[1], r.asyncResp[1]),
            PollTerminalResult(r.asyncResp[1]))
  /\ UNCHANGED <<dec, est, apiKey, jobsBound, authorized, kv, jobs>>

\* --------------------------------------------------------------------- spec

Next ==
  \/ AskAuthorize
  \/ \E r \in Invocations : AskCall(r)
  \/ \E r \in Invocations : AskSettle(r)
  \/ ChatAuthorize
  \/ \E r \in Invocations : ChatCall(r)
  \/ \E r \in Invocations : ChatSettle(r)
  \/ DeepAuthorize
  \/ \E r \in Invocations : DeepCreate(r)
  \/ \E r \in Invocations : DeepPut(r)
  \/ PollGet
  \/ \E r \in Invocations : PollFetch(r)
  \/ \E r \in Invocations : PollSettle(r)
  \/ \E j \in 1..Len(jobs) : JobAdvance(j)

Spec == Init /\ [][Next]_vars

\* ------------------------------------------------- deep research, polled on

\* The request of a finished invocation ends: execute has returned or thrown,
\* and the runtime keeps nothing of it.
Reply(r) ==
  /\ r.pc \in {"done", "failed"}
  /\ inv' = inv (-) SetToBag({r})
  /\ UNCHANGED <<dec, est, apiKey, jobsBound, authorized, settles, kv, jobs>>

PollingNext ==
  \/ DeepAuthorize
  \/ \E r \in Invocations : DeepCreate(r)
  \/ \E r \in Invocations : DeepPut(r)
  \/ PollGet
  \/ \E r \in Invocations : PollFetch(r)
  \/ \E r \in Invocations : PollSettle(r)
  \/ \E j \in 1..Len(jobs) : JobAdvance(j)
  \/ \E r \in Invocations : Reply(r)

\* The runtime runs the continuation of every await: of the polls of one
\* transaction that wait for the upstream or for the ledger, one gets its
\* answer.
PollingFairness ==
  \A t \in TxIds :
    /\ WF_vars(\E r \in Invocations : r.transactionId = t /\ PollFetch(r))
    /\ WF_vars(\E r \in Invocations : r.transactionId = t /\ PollSettle(r))

PollingSpec == Init /\ [][PollingNext]_vars /\ PollingFairness

\* ------------------------------------------- deep research, two transactions

\* The deep-research operation and its poll alone, with room for MaxDeepTx
\* transactions side by side.
MaxDeepTx == 2

DeepInit ==
  /\ dec = NoDecode
  /\ est = NoEstimate
  /\ apiKey \in BOOLEAN
  /\ jobsBound \in BOOLEAN
  /\ authorized = <<>>
  /\ settles = [t \in 1..MaxDeepTx |-> <<>>]
  /\ kv = [t \in 1..MaxDeepTx |-> None]
  /\ jobs = <<>>
  /\ inv = EmptyBag

DeepNext ==
  \/ DeepAuthorize
  \/ \E r \in Invocations : DeepCreate(r)
  \/ \E r \in Invocations : DeepPut(r)
  \/ PollGet
  \/ \E r \in Invocations : PollFetch(r)
  \/ \E r \in Invocations : PollSettle(r)
  \/ \E j \in 1..Len(jobs) : JobAdvance(j)

DeepSpec == DeepInit /\ [][DeepNext]_vars

\* --------------------------------------------------------- streaming decoder

\* Longest wait of one read, and the longest window, in clock ticks.
MaxWait == 2
MaxDeadline == 2

\* Stream text is a sequence of atoms: the event-data prefix "data:", the
\* braces, a snapshot body, other content "x", and the newline.
Snapshots == {"p1", "p2", "p3"}

\* The JSON document a snapshot body stands for.
SnapshotPayload(p) ==
  IF p = "p1" THEN CompletePayload(Usage(1, 1, None, None, None))
  ELSE IF p = "p2" THEN ChoicesOnlyPayload
  ELSE ForeignPayload

\* One server-sent event carrying a full snapshot.
Event(p) == <<"data:", "{", p, "}", "\n">>

\* The streams the upstream may send, as lists of chunks.
Streams ==
  { <<>>,
    << Event("p1") >>,
    << Event("p1"), Event("p2") >>,
    << Event("p2") \o Event("p1"), Event("p3") >>,
    << <<"data:", "{">>, <<"p1", "}", "\n">> >>,
    << Event("p1") \o <<"data:", "{", "x", "}", "\n">>, <<"\n", "x", "\n">> >>,
    << Event("p1"), <<"data:", "{", "p2", "}">> >>,
    << Event("p1"), <<"data:", "{", "p2">> >>,
    << Event("p1"), <<"data:", "{", "x", "}">> >>,
    << <<"data:", "{", "p1">> >>,
    << <<"x", "\n">>, Event("p3"), <<"data:", "{", "p1">>, <<"}">> >>,
    << <<"data:", "{", "p2", "}", "\n", "data:">>, <<"{", "p1">>, <<"}", "\n">> >>,
    << Event("p2") \o Event("p1") >>,
    << <<"data:", "{", "x", "}", "\n">>, Event("p1"), <<"data:", "\n">> >>,
    << <<"data:", "{", "x", "}", "\n">>, <<"data:", "x", "\n">> >> }

\* text.split("\n")
RECURSIVE SplitLines(_)
SplitLines(text) ==
  IF \A k \in 1..Len(text) : text[k] # "\n" THEN <<text>>
  ELSE LET k == CHOOSE k \in 1..Len(text) :
                  /\ text[k] = "\n"
                  /\ \A j \in 1..(k - 1) : text[j] # "\n"
       IN <<SubSeq(text, 1, k - 1)>> \o SplitLines(SubSeq(text, k + 1, Len(text)))

StartsWithPrefix(line) == Len(line) >= 1 /\ line[1] = "data:"
StripPrefix(line) == Tail(line)

\* JSON.parse of an event body: the document, or None when it throws.
ParsePayload(body) ==
  IF Len(body) = 3 /\ body[1] = "{" /\ body[2] \in Snapshots /\ body[3] = "}"
  THEN Some(body[2])
  ELSE None

\* The complete lines of one read: each parseable event overwrites the last
\* valid payload, a malformed line is skipped.
\* Variant: a line with the prefix that does not parse ends the processing
\* and what was captured is lost.
ProcessLines_AbortOnMalformed(lines, lastValid) ==
  LET parsed(k) == IF StartsWithPrefix(lines[k])
                   THEN ParsePayload(StripPrefix(lines[k])) ELSE None
      good == {k \in 1..Len(lines) : parsed(k) # None}
      bad == {k \in 1..Len(lines) : StartsWithPrefix(lines[k]) /\ parsed(k) = None}
  IN IF bad # {} THEN None
     ELSE IF good = {} THEN lastValid
     ELSE parsed(CHOOSE k \in good : \A j \in good : j <= k)

\* Variant: the first parseable event is kept and later ones are dropped.
ProcessLines_FirstWins(lines, lastValid) ==
  LET parsed(k) == IF StartsWithPrefix(lines[k])
                   THEN ParsePayload(StripPrefix(lines[k])) ELSE None
      good == {k \in 1..Len(lines) : parsed(k) # None}
  IN IF lastValid # None \/ good = {} THEN lastValid
     ELSE parsed(CHOOSE k \in good : \A j \in good : k <= j)

RECURSIVE ProcessLines(_, _)
ProcessLines(lines, lastValid) ==
  IF lines = <<>> THEN lastValid
  ELSE LET line == Head(lines)
           parsed == IF StartsWithPrefix(line)
                     THEN ParsePayload(StripPrefix(line)) ELSE None
       IN ProcessLines(Tail(lines), IF parsed # None THEN parsed ELSE lastValid)

\* The held-back buffer looks like one complete event.
LooksComplete(buffer) ==
  /\ StartsWithPrefix(buffer)
  /\ Len(buffer) >= 3
  /\ buffer[2] = "{"
  /\ buffer[Len(buffer)] = "}"

\* Variant: the held-back buffer is parsed whenever it carries the prefix, and
\* the outcome replaces the last valid payload.
FinalCandidate_Unguarded(buffer, lastValid) ==
  IF StartsWithPrefix(buffer) THEN ParsePayload(StripPrefix(buffer))
  ELSE lastValid

\* After the loop: the held-back buffer as one final candidate.
FinalCandidate(buffer, lastValid) ==
  IF LooksComplete(buffer)
  THEN LET parsed == ParsePayload(StripPrefix(buffer))
       IN IF parsed # None THEN parsed ELSE lastValid
  ELSE lastValid

\* The deadline check before a read.
Exceeded(clock, deadline) == clock > deadline

\* What the decoder returns for the payload it captured: the validated
\* document, the raw one when only choices is there, or a failure.
DecodeResult(lastValid) ==
  IF lastValid = None
  THEN [kind |-> "error", error |-> "EmptyStreamError", payload |-> None]
  ELSE LET data == SnapshotPayload(lastValid[1])
       IN IF SchemaAccepts(data)
          THEN [kind |-> "ok", error |-> "", payload |-> lastValid]
          ELSE IF IsSome(data.choices)
          THEN [kind |-> "raw", error |-> "", payload |-> lastValid]
          ELSE [kind |-> "error", error |-> "UpstreamSchemaError",
                payload |-> lastValid]

DecodeStart(input, deadline) ==
  [pc |-> "loop", input |-> input, deadline |-> deadline, pos |-> 0,
   clock |-> 0, buffer |-> <<>>, lastValid |-> None, cancelled |-> FALSE,
   ended |-> FALSE, result |-> [kind |-> "none", error |-> "", payload |-> None]]

StreamInit ==
  /\ dec \in {DecodeStart(input, deadline) :
                input \in Streams, deadline \in 0..MaxDeadline}
  /\ est = NoEstimate
  /\ apiKey = TRUE
  /\ jobsBound = TRUE
  /\ authorized = <<>>
  /\ settles = [t \in TxIds |-> <<>>]
  /\ kv = [t \in TxIds |-> None]
  /\ jobs = <<>>
  /\ inv = EmptyBag

\* One turn of the loop: the deadline is not exceeded, the read waits and
\* yields the next chunk, or the end of the stream.
DecodeRead ==
  /\ dec.pc = "loop"
  /\ ~Exceeded(dec.clock, dec.deadline)
  /\ \E wait \in 0..MaxWait :
       IF dec.pos = Len(dec.input)
       THEN dec' = [dec EXCEPT !.pc = "after", !.ended = TRUE,
                               !.clock = @ + wait]
       ELSE LET lines == SplitLines(dec.buffer \o dec.input[dec.pos + 1])
            IN dec' = [dec EXCEPT
                 !.pos = @ + 1,
                 !.clock = @ + wait,
                 !.buffer = lines[Len(lines)],
                 !.lastValid = ProcessLines(SubSeq(lines, 1, Len(lines) - 1),
                                            dec.lastValid)]
  /\ UNCHANGED <<est, apiKey, jobsBound, authorized, settles, kv, jobs, inv>>

\* Variant: an exceeded deadline is an error.
DecodeTimeout_Throws ==
  /\ dec.pc = "loop"
  /\ Exceeded(dec.clock, dec.deadline)
  /\ dec' = [dec EXCEPT !.pc = "returned", !.cancelled = TRUE,
                        !.result = [kind |-> "error", error |-> "TimeoutError",
                                    payload |-> None]]
  /\ UNCHANGED <<est, apiKey, jobsBound, authorized, settles, kv, jobs, inv>>

\* The deadline is exceeded: the read is cancelled and the loop stops.
DecodeTimeout ==
  /\ dec.pc = "loop"
  /\ Exceeded(dec.clock, dec.deadline)
  /\ dec' = [dec EXCEPT !.pc = "after", !.cancelled = TRUE]
  /\ UNCHANGED <<est, apiKey, jobsBound, authorized, settles, kv, jobs, inv>>

\* After the loop: the final candidate, then the captured payload or the
\* failure.
DecodeFinish ==
  /\ dec.pc = "after"
  /\ LET lastValid == FinalCandidate(dec.buffer, dec.lastValid)
     IN dec' = [dec EXCEPT !.pc = "returned", !.lastValid = lastValid,
                           !.result = DecodeResult(lastValid)]
  /\ UNCHANGED <<est, apiKey, jobsBound, authorized, settles, kv, jobs, inv>>

StreamNext ==
  \/ DecodeRead
  \/ DecodeTimeout
  \/ DecodeFinish

StreamSpec == StreamInit /\ [][StreamNext]_vars

\* ---------------------------------------------------- usage estimator calls

\* The longest query and the longest message list the estimator is called on.
MaxQueryLen == 9
MaxMessages == 2

\* model: ModelSchema.optional().default("sonar")
DefaultModel == "sonar"
ParseModel(o) == OrElse(o, DefaultModel)

\* Queries by length (the estimate reads only .length), and the two named ones.
Queries ==
  {[i \in 1..n |-> "a"] : n \in 0..MaxQueryLen} \cup {abcd, abcde}

ModelInputs == {None, Some("sonar"), Some("sonar-pro")}

\* reasoning_effort as a caller of the function may pass it.
EffortInputs ==
  {None, Some("low"), Some("medium"), Some("high"), Some("LOW"),
   Some("extreme"), Some("")}

\* Message contents: strings, chunk lists with text and image chunks, a text
\* chunk without text, an image chunk that carries a text.
Contents ==
  { StringContent(<<>>),
    StringContent(abcd),
    StringContent(abcde),
    ChunkContent(<<>>),
    ChunkContent(<< TextChunk(hi), ImageChunk >>),
    ChunkContent(<< TextChunk(hi), TextChunk(abcd) >>),
    ChunkContent(<< [type |-> "image_url", text |-> Some(abcde)],
                    TextChunk(abcd) >>),
    ChunkContent(<< [type |-> "text", text |-> None], TextChunk(<<>>),
                    TextChunk(<<"a">>) >>) }

MessageLists ==
  UNION {[1..n -> {Message("user", c) : c \in Contents}] : n \in 0..MaxMessages}

EstimatorInit ==
  /\ est = NoEstimate
  /\ dec = NoDecode
  /\ apiKey = TRUE
  /\ jobsBound = TRUE
  /\ authorized = <<>>
  /\ settles = [t \in TxIds |-> <<>>]
  /\ kv = [t \in TxIds |-> None]
  /\ jobs = <<>>
  /\ inv = EmptyBag

\* Math.ceil(query.length / 4) on a query.
CallEstimateInputTokens ==
  /\ \E query \in Queries :
       est' = [fn |-> "estimateInputTokens", arg |-> query,
               ret |-> estimateInputTokens(query)]
  /\ UNCHANGED <<dec, apiKey, jobsBound, authorized, settles, kv, jobs, inv>>

\* The authorize clauses ASK_PERPLEXITY builds for a parsed input; the schema
\* (query: z.string().min(1)) admits no empty query.
CallAskAuthorizeClauses ==
  /\ \E query \in Queries \ {<<>>}, model \in ModelInputs :
       LET context == AskContext(query, ParseModel(model), None)
       IN est' = [fn |-> "AskAuthorizeClauses", arg |-> context,
                  ret |-> AskAuthorizeClauses(context)]
  /\ UNCHANGED <<dec, apiKey, jobsBound, authorized, settles, kv, jobs, inv>>

CallEstimateInputTokensFromMessages ==
  /\ \E messages \in MessageLists :
       est' = [fn |-> "estimateInputTokensFromMessages", arg |-> messages,
               ret |-> estimateInputTokensFromMessages(messages)]
  /\ UNCHANGED <<dec, apiKey, jobsBound, authorized, settles, kv, jobs, inv>>

CallEstimateSearchQueries ==
  /\ \E effort \in EffortInputs :
       est' = [fn |-> "estimateSearchQueries", arg |-> effort,
               ret |-> estimateSearchQueries(effort)]
  /\ UNCHANGED <<dec, apiKey, jobsBound, authorized, settles, kv, jobs, inv>>

EstimatorNext ==
  \/ CallEstimateInputTokens
  \/ CallAskAuthorizeClauses
  \/ CallEstimateInputTokensFromMessages
  \/ CallEstimateSearchQueries

EstimatorSpec == EstimatorInit /\ [][EstimatorNext]_vars

\* ------------------------------------------------------------- properties

AskOp == "ASK_PERPLEXITY"
ChatOp == "PERPLEXITY_CHAT_COMPLETIONS"
DeepOp == "PERPLEXITY_DEEP_RESEARCH"
PollOp == "GET_PERPLEXITY_DEEP_RESEARCH_RESULT"

Range(seq) == {seq[k] : k \in 1..Len(seq)}

\* How many times the invocation issued the call.
CallCount(r, call) == Cardinality({k \in 1..Len(r.calls) : r.calls[k] = call})

IsFetch(call) == call \in {"fetch:chat", "fetch:async-create", "fetch:async-get"}

Ended(r) == r.pc \in {"done", "failed"}

\* C1: every clause of every settle call carries an amount no greater than the
\* amount authorized under the same clauseId for that transaction.
C1_SettleWithinAuthorized ==
  \A t \in TxIds : \A k \in 1..Len(settles[t]) :
    \A c \in Range(settles[t][k]) : \A a \in Range(authorized[t]) :
      a.clauseId = c.clauseId => c.amount <= a.amount

\* C2: every authorized transaction is settled exactly once: no transaction is
\* settled twice, and the transaction of a synchronous invocation that has
\* ended has been settled.
C2_SettledExactlyOnce ==
  /\ \A t \in 1..Len(authorized) : Len(settles[t]) <= 1
  /\ \A r \in Invocations :
       (r.op \in {AskOp, ChatOp} /\ Ended(r) /\ r.transactionId # 0)
         => Len(settles[r.transactionId]) = 1

\* C3: a poll that observed CREATED or IN_PROGRESS issued no settle call and
\* returns settled = false; a poll that observed FAILED or COMPLETED issued
\* exactly one settle call, for the transaction id it was given, and returns
\* settled = true.
C3_PollSettlesIffTerminal ==
  \A r \in Invocations :
    (r.op = PollOp /\ r.asyncResp # None) =>
      LET status == r.asyncResp[1].status
      IN /\ status \in {"CREATED", "IN_PROGRESS"} =>
              /\ r.pc = "done"
              /\ CallCount(r, "CONTRACT_SETTLE") = 0
              /\ r.result.settled = FALSE
              /\ r.result.status = status
         /\ (status \in {"FAILED", "COMPLETED"} /\ r.pc = "done") =>
              /\ CallCount(r, "CONTRACT_SETTLE") = 1
              /\ r.result.settled = TRUE
              /\ r.result.status = status
              /\ r.settleClauses \in Range(settles[r.context.transactionId])
         /\ (status \in {"FAILED", "COMPLETED"} /\ r.pc # "done") =>
              /\ r.pc = "terminal"
              /\ CallCount(r, "CONTRACT_SETTLE") = 0

C3_Witness ==
  \E r1, r2 \in Invocations :
    /\ r1.op = PollOp /\ r1.pc = "done" /\ r1.result.status = "IN_PROGRESS"
    /\ r2.op = PollOp /\ r2.pc = "done" /\ r2.result.status = "COMPLETED"
    /\ r2.result.settled

\* C4: in ASK_PERPLEXITY, PERPLEXITY_CHAT_COMPLETIONS and
\* PERPLEXITY_DEEP_RESEARCH the upstream request is sent only after
\* CONTRACT_AUTHORIZE returned a transaction id, CONTRACT_SETTLE is issued only
\* after the upstream response was received, and no transaction is settled
\* before it is authorized.
C4_AuthorizeCallSettleOrder ==
  /\ \A r \in Invocations :
       r.op \in {AskOp, ChatOp, DeepOp} =>
         \A k \in 1..Len(r.calls) :
           /\ IsFetch(r.calls[k]) =>
                /\ \E j \in 1..(k - 1) : r.calls[j] = "CONTRACT_AUTHORIZE"
                /\ r.transactionId \in 1..Len(authorized)
           /\ r.calls[k] = "CONTRACT_SETTLE" =>
                /\ \E j \in 1..(k - 1) : IsFetch(r.calls[j])
                /\ r.res = Some(HttpOk)
  /\ \A t \in TxIds : settles[t] # <<>> => t \in 1..Len(authorized)

C4_Witness ==
  \E r \in Invocations :
    /\ r.op = AskOp /\ r.pc = "done"
    /\ r.calls = <<"CONTRACT_AUTHORIZE", "fetch:chat", "CONTRACT_SETTLE">>

\* C5: a successful PERPLEXITY_CHAT_COMPLETIONS issued exactly one authorize,
\* with an input-token clause estimated from the message list and an
\* output-token clause of max_tokens, then the non-streamed upstream call, then
\* exactly one settle with the same two clauseIds.
C5_ChatMetering ==
  \A r \in Invocations :
    (r.op = ChatOp /\ r.pc = "done") =>
      LET t == r.transactionId
          model == r.context.model
      IN /\ r.calls = <<"CONTRACT_AUTHORIZE", "fetch:chat", "CONTRACT_SETTLE">>
         /\ r.stream = Some(FALSE)
         /\ t \in 1..Len(authorized)
         /\ authorized[t] =
              << [clauseId |-> <<model, "input-token">>,
                  amount |-> estimateInputTokensFromMessages(r.context.messages)],
                 [clauseId |-> <<model, "output-token">>,
                  amount |-> r.context.max_tokens] >>
         /\ Len(settles[t]) = 1
         /\ Len(settles[t][1]) = 2
         /\ ClauseIds(settles[t][1]) = ClauseIds(authorized[t])

C5_Witness ==
  \E r \in Invocations :
    /\ r.op = ChatOp /\ r.pc = "done"
    /\ r.context.model = "sonar-pro"
    /\ Len(settles[r.transactionId]) = 1

\* C6: a poll that observed FAILED, or COMPLETED without a response payload,
\* issued one settle call carrying exactly the five clauses input-token,
\* output-token, citation-token, reasoning-token and search-query, each at
\* amount 0, and returns a null response.
C6_ZeroSettlement ==
  \A r \in Invocations :
    ( /\ r.op = PollOp /\ r.pc = "done" /\ r.asyncResp # None
      /\ \/ r.asyncResp[1].status = "FAILED"
         \/ /\ r.asyncResp[1].status = "COMPLETED"
            /\ r.asyncResp[1].response = None ) =>
      /\ CallCount(r, "CONTRACT_SETTLE") = 1
      /\ r.settleClauses \in Range(settles[r.transactionId])
      /\ Len(r.settleClauses) = 5
      /\ {c.clauseId[2] : c \in Range(r.settleClauses)} = Resources
      /\ \A c \in Range(r.settleClauses) : c.amount = 0
      /\ r.result.response = None
      /\ r.result.settled

C6_Witness ==
  \E r \in Invocations :
    /\ r.op = PollOp /\ r.pc = "done"
    /\ r.result.status = "COMPLETED" /\ r.asyncResp[1].response = None
    /\ r.result.settled

\* C7: a poll whose transaction id has no record in the Job Store fails at the
\* lookup: it has made no ledger call and no upstream request.
C7_UnknownTransaction ==
  \A r \in Invocations :
    r.op = PollOp =>
      /\ (~jobsBound \/ kv[r.transactionId] = None) =>
           /\ r.pc = "failed"
           /\ r.result.error \in {"UnknownTransactionError", "StoreError"}
      /\ r.result.error = "UnknownTransactionError" =>
           /\ r.pc = "failed"
           /\ CallCount(r, "CONTRACT_SETTLE") = 0
           /\ \A k \in 1..Len(r.calls) : ~IsFetch(r.calls[k])

C7_Witness ==
  \E r \in Invocations :
    /\ r.op = PollOp /\ r.pc = "failed"
    /\ r.result.error = "UnknownTransactionError"
    /\ jobsBound
    /\ r.calls = <<"JOBS.get">>

\* C8: when the upstream chat-completion call answers with a non-success HTTP
\* status after the authorize, the tool fails with UpstreamHttpError carrying
\* that status and issues no settle: the transaction stays authorized and
\* unsettled.
C8_UpstreamFailureLeavesUnsettled ==
  \A r \in Invocations :
    (r.op \in {AskOp, ChatOp} /\ r.res # None /\ r.res # Some(HttpOk)) =>
      /\ r.pc = "failed"
      /\ r.result.error = "UpstreamHttpError"
      /\ r.result.httpStatus = r.res[1]
      /\ CallCount(r, "CONTRACT_AUTHORIZE") = 1
      /\ CallCount(r, "CONTRACT_SETTLE") = 0
      /\ r.transactionId \in 1..Len(authorized)
      /\ settles[r.transactionId] = <<>>

C8_Witness ==
  \E r \in Invocations :
    /\ r.op = ChatOp /\ r.pc = "failed"
    /\ r.result.error = "UpstreamHttpError" /\ r.result.httpStatus = 429
    /\ r.transactionId \in 1..Len(authorized)

\* C9: after a successful PERPLEXITY_DEEP_RESEARCH the Job Store holds, under
\* the transaction id returned, the record of the authorized clauses and the
\* job descriptor returned by the upstream, and the tool issued no settle.
C9_DeepResearchPersistsJobRecord ==
  \A r \in Invocations :
    (r.op = DeepOp /\ r.pc = "done") =>
      LET t == r.result.transactionId
      IN /\ t \in 1..Len(authorized)
         /\ kv[t] = Some(JSONStringify([authorizeClauses |-> authorized[t],
                                        asyncResp |-> r.result.request[1]]))
         /\ CallCount(r, "CONTRACT_SETTLE") = 0

\* The polls of transaction t that settled and returned, counted with
\* multiplicity.
SettledPolls(t) ==
  BagCardinality(
    [r \in {x \in Invocations : /\ x.op = PollOp /\ x.transactionId = t
                                /\ x.pc = "done" /\ x.result.settled}
       |-> CopiesIn(r, inv)])

\* C10: the poll does not guard against duplicate settlement: every poll that
\* found the job of a transaction in a terminal state settled it once more, so
\* the ledger holds one settle call per such poll (and two are reachable).
C10_EveryTerminalPollSettles ==
  \A t \in TxIds : kv[t] # None => Len(settles[t]) = SettledPolls(t)

C10_Witness ==
  \E t \in TxIds : Len(settles[t]) = 2 /\ SettledPolls(t) = 2

\* C11: the settle call of a successful ASK_PERPLEXITY carries input-token =
\* min(estimated input tokens, upstream prompt_tokens) and output-token =
\* min(upstream completion_tokens, requested max_tokens).
C11_AskSettleAmounts ==
  \A r \in Invocations :
    (r.op = AskOp /\ r.pc = "done") =>
      LET t == r.transactionId
          model == r.context.model
          usage == r.json[1].usage
          estimated == FindAmount(authorized[t], <<model, "input-token">>)
          cap == r.context.max_tokens
      IN settles[t] =
           << << [clauseId |-> <<model, "input-token">>,
                  amount |-> IF estimated <= usage.prompt_tokens
                             THEN estimated ELSE usage.prompt_tokens],
                 [clauseId |-> <<model, "output-token">>,
                  amount |-> IF usage.completion_tokens <= cap
                             THEN usage.completion_tokens ELSE cap] >> >>

C11_Witness ==
  \E r \in Invocations :
    /\ r.op = AskOp /\ r.pc = "done"
    /\ r.json[1].usage.prompt_tokens < estimateInputTokens(r.context.query)
    /\ r.json[1].usage.completion_tokens > r.context.max_tokens
    /\ Len(settles[r.transactionId]) = 1

\* C12: PERPLEXITY_DEEP_RESEARCH authorizes exactly five clauses under the
\* prefix sonar-deep-research: input-token = the estimate from the message
\* list, output-token = max_tokens, citation-token = max(max_tokens, 50000),
\* reasoning-token = max(max_tokens, 100000), search-query =
\* estimateSearchQueries(reasoning_effort).
C12_DeepAuthorizesFiveClauses ==
  \A r \in Invocations :
    (r.op = DeepOp /\ r.pc # "failed") =>
      LET t == r.transactionId
          cap == r.context.max_tokens
      IN /\ t \in 1..Len(authorized)
         /\ authorized[t] =
              << [clauseId |-> <<"sonar-deep-research", "input-token">>,
                  amount |-> estimateInputTokensFromMessages(r.context.messages)],
                 [clauseId |-> <<"sonar-deep-research", "output-token">>,
                  amount |-> cap],
                 [clauseId |-> <<"sonar-deep-research", "citation-token">>,
                  amount |-> IF cap >= 50000 THEN cap ELSE 50000],
                 [clauseId |-> <<"sonar-deep-research", "reasoning-token">>,
                  amount |-> IF cap >= 100000 THEN cap ELSE 100000],
                 [clauseId |-> <<"sonar-deep-research", "search-query">>,
                  amount |-> estimateSearchQueries(r.context.reasoning_effort)] >>

C12_Witness ==
  \E r \in Invocations :
    /\ r.op = DeepOp /\ r.pc = "done"
    /\ r.context.max_tokens = 100001
    /\ Len(authorized[r.transactionId]) = 5

\* The external call a failure comes from is the last one the invocation
\* attempted (a missing credential or record is found before the call).
FailedAtLastCall(r) ==
  LET n == Len(r.calls)
      error == r.result.error
  IN /\ error \in {"LedgerError", "UpstreamHttpError", "UpstreamSchemaError",
                   "StoreError", "MissingCredentialError",
                   "UnknownTransactionError"}
     /\ error = "LedgerError" =>
          n > 0 /\ r.calls[n] \in {"CONTRACT_AUTHORIZE", "CONTRACT_SETTLE"}
     /\ error \in {"UpstreamHttpError", "UpstreamSchemaError"} =>
          n > 0 /\ IsFetch(r.calls[n])
     /\ error = "StoreError" => n > 0 /\ r.calls[n] \in {"JOBS.get", "JOBS.put"}
     /\ error \in {"MissingCredentialError", "UnknownTransactionError"} =>
          \A k \in 1..n : ~IsFetch(r.calls[k])

\* C13: no operation retries. Within one invocation each external call
\* (authorize, upstream request, store get/put, settle) is attempted at most
\* once; a failure ends the invocation with that failure, and a failed
\* invocation makes no further step (so a failed authorize is followed by no
\* upstream request, store write or settle).
C13_NoRetry ==
  [][ /\ \A r \in BagToSet(inv') :
           /\ \A i, j \in 1..Len(r.calls) : i # j => r.calls[i] # r.calls[j]
           /\ r.pc = "failed" => FailedAtLastCall(r)
      /\ \A r \in Invocations :
           r.pc = "failed" => CopiesIn(r, inv') >= CopiesIn(r, inv) ]_vars

C13_Witness ==
  \E r \in Invocations :
    /\ r.pc = "failed" /\ r.result.error = "LedgerError"
    /\ r.calls = <<"CONTRACT_AUTHORIZE">>
    /\ r.transactionId = 0

\* C14: when the API credential is absent, every upstream client call fails
\* with MissingCredentialError before any network call: no operation sends an
\* HTTP request to the upstream API.
C14_MissingCredentialIsPreflight ==
  ~apiKey =>
    /\ jobs = <<>>
    /\ \A r \in Invocations :
         /\ \A k \in 1..Len(r.calls) : ~IsFetch(r.calls[k])
         /\ r.res = None
         /\ r.pc \in {"authorized", "loaded", "failed"}
         /\ (r.pc = "failed" /\ r.transactionId \in 1..Len(authorized)
             /\ r.op \in {AskOp, ChatOp, DeepOp}) =>
              r.result.error = "MissingCredentialError"

C14_Witness ==
  /\ ~apiKey
  /\ \E r \in Invocations :
       /\ r.op = ChatOp /\ r.pc = "failed"
       /\ r.result.error = "MissingCredentialError"
       /\ r.calls = <<"CONTRACT_AUTHORIZE">>

\* The text of the chunks the decoder has read.
RECURSIVE Concat(_)
Concat(chunks) ==
  IF chunks = <<>> THEN <<>> ELSE Head(chunks) \o Concat(Tail(chunks))

Consumed(d) == Concat(SubSeq(d.input, 1, d.pos))

\* The lines of a text by their first positions; a line is closed when a
\* newline ends it.
LineStarts(text) ==
  {1} \cup {k + 1 : k \in {j \in 1..Len(text) : text[j] = "\n"}}

Closed(text, s) == \E k \in s..Len(text) : text[k] = "\n"

LineFrom(text, s) ==
  LET ends == {k \in s..Len(text) : text[k] = "\n"}
  IN IF ends = {} THEN SubSeq(text, s, Len(text))
     ELSE SubSeq(text, s, (CHOOSE k \in ends : \A j \in ends : k <= j) - 1)

IsEventLine(line) ==
  /\ Len(line) = 4
  /\ line[1] = "data:" /\ line[2] = "{" /\ line[3] \in Snapshots /\ line[4] = "}"

\* The snapshot of the last well-formed event among the lines starting in
\* starts, or None.
LastSnapshot(text, starts) ==
  LET events == {s \in starts : IsEventLine(LineFrom(text, s))}
  IN IF events = {} THEN None
     ELSE Some(LineFrom(text, CHOOSE s \in events : \A u \in events : u <= s)[3])

\* The last line of the text is an event cut off before its closing brace.
TruncatedTail(text) ==
  LET s == CHOOSE s \in LineStarts(text) : \A u \in LineStarts(text) : u <= s
      tail == LineFrom(text, s)
  IN /\ tail # <<>>
     /\ tail[1] = "data:"
     /\ tail[Len(tail)] # "}"

\* C15: the decoder checks the deadline before each read. Once the deadline
\* is exceeded it cancels the read and reads no further chunk, and it returns
\* the last valid payload of what it has read: it fails with EmptyStreamError
\* exactly when no payload was captured before the end of the stream or the
\* timeout.
C15_SoftDeadline ==
  [][ /\ dec'.pos > dec.pos => dec.clock <= dec.deadline
      /\ (dec.pc = "loop" /\ dec.clock > dec.deadline) =>
           /\ dec'.cancelled
           /\ dec'.pos = dec.pos
           /\ dec'.pc = "after"
      /\ dec'.pc = "returned" =>
           LET text == Consumed(dec')
               captured == LastSnapshot(text, LineStarts(text))
           IN /\ dec'.result.error = "EmptyStreamError" <=> captured = None
              /\ dec'.result.payload = captured
              /\ dec'.result.error # "TimeoutError"
    ]_vars

C15_Witness ==
  /\ dec.pc = "returned"
  /\ dec.cancelled
  /\ dec.pos < Len(dec.input)
  /\ dec.clock > dec.deadline
  /\ dec.result.kind = "ok"
  /\ dec.result.payload = Some("p1")

\* C16: when the text read ends in an event line cut off before its closing
\* brace, the decoder does not take the held-back buffer as the final
\* candidate: it returns the last complete payload parsed before it.
C16_TruncatedTailIgnored ==
  (dec.pc = "returned" /\ TruncatedTail(Consumed(dec))) =>
    LET text == Consumed(dec)
        before == LastSnapshot(text, {s \in LineStarts(text) : Closed(text, s)})
    IN /\ dec.result.payload = before
       /\ dec.result.error = "EmptyStreamError" <=> before = None

C16_Witness ==
  /\ dec.pc = "returned"
  /\ dec.ended
  /\ dec.input = << Event("p1"), <<"data:", "{", "p2">> >>
  /\ dec.buffer = <<"data:", "{", "p2">>
  /\ dec.result.payload = Some("p1")

\* C17: when a 2xx body fails the chat-completion schema, the client returns
\* the raw body if it has a choices field, and fails with UpstreamSchemaError
\* only if it has none.
C17_ChoicesFallback ==
  \A r \in Invocations :
    ( /\ r.op \in {AskOp, ChatOp}
      /\ r.res = Some(HttpOk) /\ r.data # None
      /\ ~SchemaAccepts(r.data[1]) ) =>
      IF IsSome(r.data[1].choices)
      THEN r.pc # "failed"
      ELSE r.pc = "failed" /\ r.result.error = "UpstreamSchemaError"

\* ceil(n / 4) as the least k with 4k >= n.
CeilQuarter(n) == CHOOSE k \in 0..n : 4 * k >= n /\ \A j \in 0..(k - 1) : 4 * j < n

\* C18: ASK_PERPLEXITY authorizes an input-token clause of amount
\* ceil(len(query) / 4), 0 for the empty string, under the clauseId
\* <requested model>:input-token; for query "abcd" and the default model the
\* clauses include sonar:input-token = 1.
C18_AskInputTokenEstimate ==
  /\ est.fn = "estimateInputTokens" =>
       /\ est.ret = CeilQuarter(Len(est.arg))
       /\ est.arg = <<>> => est.ret = 0
  /\ est.fn = "AskAuthorizeClauses" =>
       /\ {c \in Range(est.ret) : c.clauseId = <<est.arg.model, "input-token">>}
            = {[clauseId |-> <<est.arg.model, "input-token">>,
                amount |-> CeilQuarter(Len(est.arg.query))]}
       /\ est.arg.query = abcd /\ est.arg.model = "sonar" =>
            \E c \in Range(est.ret) :
              c.clauseId = <<"sonar", "input-token">> /\ c.amount = 1

C18_Witness ==
  /\ est.fn = "AskAuthorizeClauses"
  /\ est.arg.query = abcd
  /\ est.arg.model = "sonar"
  /\ est.ret[1] = [clauseId |-> <<"sonar", "input-token">>, amount |-> 1]

\* C19: estimateSearchQueries returns 10 for low, 60 for high and 30 for every
\* other input: medium, undefined, or an unrecognized value.
C19_SearchQueryBudget ==
  est.fn = "estimateSearchQueries" =>
    /\ est.arg = Some("low") => est.ret = 10
    /\ est.arg = Some("high") => est.ret = 60
    /\ est.arg \notin {Some("low"), Some("high")} => est.ret = 30

C19_Witness ==
  /\ est.fn = "estimateSearchQueries"
  /\ est.arg = Some("extreme")
  /\ est.ret = 30

\* The counted text of a message list: every string content and the text of
\* every text-typed chunk, joined.
RECURSIVE CountedChunkText(_)
CountedChunkText(chunks) ==
  IF chunks = <<>> THEN <<>>
  ELSE CountedChunkText(SubSeq(chunks, 1, Len(chunks) - 1))
         \o (LET chunk == chunks[Len(chunks)]
             IN IF chunk.type = "text" THEN OrElse(chunk.text, <<>>) ELSE <<>>)

RECURSIVE CountedText(_)
CountedText(messages) ==
  IF messages = <<>> THEN <<>>
  ELSE CountedText(SubSeq(messages, 1, Len(messages) - 1))
         \o (LET content == messages[Len(messages)].content
             IN IF content.kind = "string" THEN content.text
                ELSE CountedChunkText(content.chunks))

\* C20: estimateInputTokensFromMessages returns ceil(total / 4), total being
\* the summed length of every string content and every text-typed chunk of
\* all messages; image_url chunks contribute 0 (a message with the text "hi"
\* and an image chunk yields 1).
C20_MessageEstimate ==
  est.fn = "estimateInputTokensFromMessages" =>
    /\ est.ret = CeilQuarter(Len(CountedText(est.arg)))
    /\ est.arg = HiImage => est.ret = 1

C20_Witness ==
  /\ est.fn = "estimateInputTokensFromMessages"
  /\ est.arg = HiImage
  /\ est.ret = 1

\* The amount a stored JobRecord authorizes for a resource.
RecordAmount(t, prefix, resource) ==
  LET clauses == kv[t][1][2].authorizeClauses
      found == {k \in 1..Len(clauses) : clauses[k].clauseId = <<prefix, resource>>}
  IN IF found = {} THEN 0
     ELSE clauses[CHOOSE k \in found : \A j \in found : k <= j].amount

\* min(reported value, or 0 when it is null or absent, and the cap)
CappedReport(reported, cap) ==
  LET value == IF reported = None THEN 0 ELSE reported[1]
  IN IF value <= cap THEN value ELSE cap

CompleteLines(text) == text # <<>> /\ text[Len(text)] = "\n"

\* The well-formed event lines of a text, in stream order.
RECURSIVE EventsOf(_)
EventsOf(text) ==
  IF text = <<>> THEN <<>>
  ELSE LET line == LineFrom(text, 1)
           rest == SubSeq(text, Len(line) + 2, Len(text))
       IN (IF IsEventLine(line) THEN <<line[3]>> ELSE <<>>) \o EventsOf(rest)

\* C22: the decoder is last-wins. When the text read before the deadline is a
\* sequence of complete lines, the returned payload is the one of the last
\* line that parsed, whatever the chunks were that carried the text.
C22_LastWins ==
  (dec.pc = "returned" /\ CompleteLines(Consumed(dec))) =>
    LET events == EventsOf(Consumed(dec))
    IN /\ events = <<>> => dec.result.payload = None
       /\ events # <<>> => dec.result.payload = Some(events[Len(events)])

C22_Witness ==
  /\ dec.pc = "returned"
  /\ dec.input = << <<"data:", "{", "p2", "}", "\n", "data:">>,
                    <<"{", "p1">>, <<"}", "\n">> >>
  /\ dec.pos = 3
  /\ EventsOf(Consumed(dec)) = <<"p2", "p1">>
  /\ dec.result.payload = Some("p1")


\* A line carries the event-data prefix and its body does not parse.
IsMalformedLine(line) == Len(line) >= 1 /\ line[1] = "data:" /\ ~IsEventLine(line)

MalformedLines(text) ==
  {s \in LineStarts(text) : Closed(text, s) /\ IsMalformedLine(LineFrom(text, s))}

\* C23: a malformed event-data line never aborts the decoding. Whatever the
\* number of malformed lines in the text read, a payload is captured exactly
\* when at least one line of the text is a well-formed event, and the decoder
\* fails with EmptyStreamError exactly when there is none.
C23_MalformedLinesSkipped ==
  dec.pc = "returned" =>
    LET text == Consumed(dec)
        wellFormed == {s \in LineStarts(text) : IsEventLine(LineFrom(text, s))}
    IN /\ wellFormed # {} <=> dec.result.payload # None
       /\ wellFormed = {} <=> dec.result.error = "EmptyStreamError"
       /\ wellFormed = {} => dec.result.kind = "error"

C23_Witness ==
  /\ dec.pc = "returned"
  /\ dec.ended
  /\ \E s \in MalformedLines(Consumed(dec)) :
       \E u \in LineStarts(Consumed(dec)) :
         u > s /\ IsEventLine(LineFrom(Consumed(dec), u))
  /\ dec.result.kind = "ok"
  /\ dec.result.payload = Some("p1")


\* C24: the job store record of a transaction is written only by
\* PERPLEXITY_DEEP_RESEARCH when the job was created:
\* GET_PERPLEXITY_DEEP_RESEARCH_RESULT only reads it. A stored record is never
\* changed or deleted, by a poll in any status branch or by anything else, and
\* the only step that changes the store is the put of a deep-research
\* invocation whose job was created.
C24_JobRecordWrittenOnce ==
  [][ /\ \A t \in TxIds : kv[t] # None => kv'[t] = kv[t]
      /\ kv' # kv =>
           \E r \in Invocations :
             /\ r.op = DeepOp /\ r.pc = "created"
             /\ r.asyncResp # None
             /\ kv[r.transactionId] = None
             /\ kv' = [kv EXCEPT ![r.transactionId] = Some(JSONStringify(
                         [authorizeClauses |-> r.authorizeClauses,
                          asyncResp |-> r.asyncResp[1]]))]
    ]_vars

C24_Witness ==
  \E t \in TxIds :
    /\ kv[t] # None
    /\ \E r \in Invocations :
         /\ r.op = PollOp /\ r.pc = "done" /\ r.transactionId = t
         /\ r.result.settled /\ r.result.status = "COMPLETED"
    /\ \E r \in Invocations :
         /\ r.op = PollOp /\ r.pc = "done" /\ r.transactionId = t
         /\ ~r.result.settled


\* The deep-research invocations that hold transaction t and created a job.
Owners(t) ==
  {d \in Invocations :
     d.op = DeepOp /\ d.transactionId = t /\ d.asyncResp # None}

\* What a poll of transaction t settles when only the request of t and the
\* upstream job created for t are looked at.
OwnSettleClauses(d) ==
  LET job == jobs[d.asyncResp[1].id]
      prefix == job.model
      own == DeepAuthorizeClauses(d.context)
  IN IF job.status = "COMPLETED" /\ job.response # None
     THEN ReconcileClauses(prefix, own, job.response[1].usage)
     ELSE ZeroClauses(prefix)

\* C25: invocations of distinct transactions are independent. Under every
\* interleaving the clauses authorized for a transaction are those of its own
\* request, its record in the job store holds its own clauses and its own
\* job, no two transactions share a job, and every settle of a transaction is
\* computed from its own request and its own job alone, as if its operations
\* had run with nothing beside them.
C25_TransactionsIndependent ==
  /\ \A d \in Invocations :
       (d.op = DeepOp /\ d.pc # "failed") =>
         authorized[d.transactionId] = DeepAuthorizeClauses(d.context)
  /\ \A t \in DOMAIN kv :
       kv[t] # None =>
         \E d \in Owners(t) :
           /\ d.pc = "done"
           /\ JSONParse(kv[t][1]) =
                [authorizeClauses |-> DeepAuthorizeClauses(d.context),
                 asyncResp |-> AsyncJob(d.asyncResp[1].id, d.asyncResp[1].model,
                                        "CREATED", None)]
  /\ \A t, u \in DOMAIN kv :
       \A d \in Owners(t) : \A e \in Owners(u) :
         t # u => d.asyncResp[1].id # e.asyncResp[1].id
  /\ \A t \in DOMAIN settles :
       \A k \in 1..Len(settles[t]) :
         \E d \in Owners(t) : settles[t][k] = OwnSettleClauses(d)

C25_Witness ==
  /\ Len(authorized) = 2
  /\ authorized[1] # authorized[2]
  /\ kv[1] # None /\ kv[2] # None
  /\ jobs[1].status = "COMPLETED" /\ jobs[2].status = "COMPLETED"
  /\ jobs[1].response # jobs[2].response
  /\ jobs[1].response # None /\ jobs[2].response # None
  /\ settles[1] = <<>>
  /\ Len(settles[2]) = 1
  /\ settles[2][1][3].amount = 50001


\* C26: every settle call of a transaction carries exactly the clauseIds that
\* were authorized for it; in the poll, whose prefix is the model field of the
\* upstream job descriptor, the settled clauseIds are the
\* sonar-deep-research ones of the JobRecord.
C26_SettleClauseIdsAsAuthorized ==
  \A t \in DOMAIN settles : \A k \in 1..Len(settles[t]) :
    /\ {c.clauseId : c \in Range(settles[t][k])} =
         {a.clauseId : a \in Range(authorized[t])}
    /\ kv[t] # None =>
         {c.clauseId : c \in Range(settles[t][k])} =
           {a.clauseId : a \in Range(JSONParse(kv[t][1]).authorizeClauses)}


\* A deep-research invocation that was authorized and failed in the creation
\* of the upstream job.
FailedAtCreate(r) ==
  /\ r.op = DeepOp /\ r.pc = "failed"
  /\ r.transactionId \in 1..Len(authorized)
  /\ r.result.error \in {"MissingCredentialError", "UpstreamHttpError"}

\* C27: a record is in the job store under a transaction id only if authorize
\* returned that id and the upstream job was created. When the creation fails
\* after the authorize, the invocation puts nothing, settles nothing, and no
\* poll of that transaction ever gets past the lookup of the record.
C27_RecordOnlyAfterCreation ==
  /\ \A t \in DOMAIN kv :
       kv[t] # None =>
         /\ t \in 1..Len(authorized)
         /\ JSONParse(kv[t][1]).asyncResp.id \in 1..Len(jobs)
         /\ JSONParse(kv[t][1]).authorizeClauses = authorized[t]
         /\ \E d \in Invocations :
              /\ d.op = DeepOp /\ d.transactionId = t /\ d.pc = "done"
              /\ CallCount(d, "fetch:async-create") = 1
         /\ \A d \in Invocations : FailedAtCreate(d) => d.transactionId # t
  /\ \A d \in Invocations :
       FailedAtCreate(d) =>
         /\ kv[d.transactionId] = None
         /\ settles[d.transactionId] = <<>>
         /\ CallCount(d, "JOBS.put") = 0
         /\ CallCount(d, "CONTRACT_SETTLE") = 0
         /\ \A p \in Invocations :
              (p.op = PollOp /\ p.transactionId = d.transactionId) =>
                /\ p.pc = "failed"
                /\ p.result.error \in {"UnknownTransactionError", "StoreError"}
                /\ CallCount(p, "CONTRACT_SETTLE") = 0

C27_Witness ==
  \E d \in Invocations :
    /\ FailedAtCreate(d)
    /\ d.result.error = "UpstreamHttpError"
    /\ d.calls = <<"CONTRACT_AUTHORIZE", "fetch:async-create">>
    /\ jobsBound
    /\ \E p \in Invocations :
         /\ p.op = PollOp /\ p.transactionId = d.transactionId
         /\ p.result.error = "UnknownTransactionError"


\* C28: the credential check runs after the authorization. Without an API
\* credential an invocation of ASK_PERPLEXITY, PERPLEXITY_CHAT_COMPLETIONS or
\* PERPLEXITY_DEEP_RESEARCH never succeeds, and when it has failed it has made
\* exactly one authorize call, no upstream request and no settle call: the
\* transaction it opened stays authorized and unsettled.
C28_CredentialCheckedAfterAuthorize ==
  ~apiKey =>
    \A r \in Invocations :
      r.op \in {AskOp, ChatOp, DeepOp} =>
        /\ r.pc # "done"
        /\ CallCount(r, "CONTRACT_AUTHORIZE") = 1
        /\ r.pc = "failed" =>
             /\ r.calls = <<"CONTRACT_AUTHORIZE">>
             /\ r.result.error \in {"MissingCredentialError", "LedgerError"}
             /\ r.result.error = "MissingCredentialError" <=>
                  r.transactionId \in 1..Len(authorized)
             /\ r.result.error = "MissingCredentialError" =>
                  /\ authorized[r.transactionId] # <<>>
                  /\ settles[r.transactionId] = <<>>
                  /\ kv[r.transactionId] = None

C28_Witness ==
  /\ ~apiKey
  /\ Len(authorized) = 1
  /\ settles[1] = <<>>
  /\ \E r \in Invocations :
       /\ r.op = DeepOp /\ r.pc = "failed"
       /\ r.transactionId = 1
       /\ r.result.error = "MissingCredentialError"
       /\ CallCount(r, "CONTRACT_AUTHORIZE") = 1
       /\ CallCount(r, "CONTRACT_SETTLE") = 0
  /\ \E r \in Invocations :
       /\ r.op = AskOp /\ r.pc = "failed"
       /\ r.result.error = "LedgerError"


\* PERPLEXITY_DEEP_RESEARCH has returned transaction t, with job j created.
DeepSucceeded(t, j) ==
  \E d \in Invocations :
    /\ d.op = DeepOp /\ d.pc = "done"
    /\ d.transactionId = t
    /\ d.asyncResp[1].id = j

\* The upstream job j has reached FAILED or COMPLETED.
JobTerminal(j) ==
  j \in 1..Len(jobs) /\ jobs[j].status \in {"FAILED", "COMPLETED"}

\* The caller starts a poll of t.
PollStarted(t) ==
  \E p \in BagToSet(inv') :
    /\ p.op = PollOp /\ p.transactionId = t
    /\ CopiesIn(p, inv') = CopiesIn(p, inv) + 1
    /\ BagCardinality(inv') = BagCardinality(inv) + 1

\* No store, upstream or ledger call of a poll of t has failed.
PollCallsSucceed(t) ==
  \A p \in Invocations :
    (p.op = PollOp /\ p.transactionId = t /\ p.pc = "failed") =>
      p.result.error \notin {"StoreError", "UpstreamHttpError", "LedgerError"}

\* C29: for a transaction of a successful PERPLEXITY_DEEP_RESEARCH, if the
\* upstream job reaches FAILED or COMPLETED and stays there, the caller keeps
\* polling and the store, upstream and ledger calls succeed, then a poll
\* eventually settles the transaction and returns settled = true. The ledger
\* is written only by a poll that saw a terminal status: polls that see
\* CREATED or IN_PROGRESS leave it untouched, however many of them there are.
C29_PolledUntilSettled ==
  /\ \A t \in TxIds : \A j \in TxIds :
       ( /\ <>DeepSucceeded(t, j)
         /\ <>[]JobTerminal(j)
         /\ []<><<PollStarted(t)>>_vars
         /\ []PollCallsSucceed(t) ) => <>(settles[t] # <<>>)
  /\ [][ \A t \in TxIds :
           settles'[t] # settles[t] =>
             /\ \E r \in Invocations :
                  /\ r.op = PollOp /\ r.transactionId = t /\ r.pc = "terminal"
                  /\ r.asyncResp[1].status \in {"FAILED", "COMPLETED"}
             /\ \E p \in BagToSet(inv') :
                  /\ p.op = PollOp /\ p.transactionId = t /\ p.pc = "done"
                  /\ p.result.settled
                  /\ settles'[t] = Append(settles[t], p.settleClauses)
       ]_vars
  /\ [](\A p \in Invocations :
          (p.op = PollOp /\ p.pc = "done" /\ p.asyncResp # None
           /\ p.asyncResp[1].status \in {"CREATED", "IN_PROGRESS"}) =>
            /\ ~p.result.settled
            /\ CallCount(p, "CONTRACT_SETTLE") = 0)

====
